---------------------------- MODULE Spec2Model ----------------------------
(***************************************************************************)
(* A model of the mutableware HandlerContainer: an ordered, mutable chain  *)
(* of request handlers that is recompiled into one composed callable on    *)
(* every mutation.                                                         *)
(*                                                                         *)
(* Add, Remove, Handle and Validate each hold hc.mux for their whole body  *)
(* (Lock/RLock on entry, deferred unlock), so each is one atomic action.   *)
(* A Go slice is modelled by its visible elements and its capacity: the    *)
(* elements of the backing array beyond len are never read by this code.   *)
(***************************************************************************)
EXTENDS Integers, Sequences, FiniteSets, TLC

(***************************************************************************)
(* Bounds of the model.                                                    *)
(***************************************************************************)
\* How many Add calls a behaviour may make (caps hc.nextID).
MaxAdds == 3
\* A caller may pass in a context whose stack has at most this many frames.
MaxCtx == 1

(***************************************************************************)
(* Program constants.                                                      *)
(***************************************************************************)
\* nextID of a new container.
BaseID == 10
\* HandlerID(0): "no swap target".
NoSwap == 0

\* The requests callers send (a handler may double one on the way down).
Requests == {1}

\* Names given through AddOptionName; "" is the zero value (no name).
Names == {"", "a"}

\* What a caller-supplied handler does in Handle / Validate:
\*   pass     call next(ctx, request) and return its result unchanged
\*   ret      return its own response and no error, without calling next
\*   fail     return the zero response and its own plain error
\*   failT    return an error that already wraps the chain's sentinel
\*   xform    call next with a doubled request; decorate the response it
\*            returns, or wrap the error it returns with %w (sentinel kept)
Behaviours == {"pass", "ret", "fail", "failT", "xform"}
CallsNext == {"pass", "xform"}
\* The handlers that callers also add under a name.
NamedBehaviours == {"pass", "fail"}

Max(a, b) == IF a >= b THEN a ELSE b

RECURSIVE Reverse(_)
Reverse(s) == IF s = <<>> THEN <<>> ELSE Append(Reverse(Tail(s)), Head(s))

(***************************************************************************)
(* HandlerInfo and its formatting.                                         *)
(***************************************************************************)
HandlerInfo(id, name) == [ID |-> id, Name |-> name]

\* fmt's %d of a HandlerID, for the IDs this model can allocate.
Digits == <<"0", "1", "2", "3", "4", "5", "6", "7", "8", "9">>
RECURSIVE FormatUint(_)
FormatUint(n) ==
    IF n < 10 THEN <<Digits[n + 1]>>
    ELSE Append(FormatUint(n \div 10), Digits[(n % 10) + 1])

InfoStringNoName(h) == FormatUint(h.ID)

\* HandlerInfo.String(): "%d(%s)" when named, "%d" otherwise; a string is
\* modelled as the sequence of its pieces.
InfoString(h) ==
    IF h.Name # "" THEN FormatUint(h.ID) \o <<"(", h.Name, ")">>
    ELSE FormatUint(h.ID)

(***************************************************************************)
(* Errors.  An error value is its message and the set of errors that       *)
(* errors.Is finds in its %w tree; nil is NilErr.                          *)
(***************************************************************************)
NilErr == [nil |-> TRUE, msg |-> <<>>, is |-> {}]
NewError(text) == [nil |-> FALSE, msg |-> <<text>>, is |-> {text}]
ErrHandle == NewError("handleError")
ErrValidate == NewError("validateError")
\* The error a failing handler returns (fmt.Errorf("an_error")).
AnError == NewError("an_error")

ErrorsIs(err, target) == (~err.nil) /\ (target.is \subseteq err.is)

\* The sentinel of a chain: Handle chains use ErrHandle, Validate chains
\* ErrValidate.
Sentinel(kind) == IF kind = "handle" THEN ErrHandle ELSE ErrValidate

\* fmt.Errorf("%w handler=%s %w", sentinel, info, err)
WrapError(sentinel, info, err) ==
    [nil |-> FALSE,
     msg |-> sentinel.msg \o <<" handler=">> \o InfoString(info) \o <<" ">> \o err.msg,
     is  |-> sentinel.is \cup err.is]

\* fmt.Errorf("custom %w", sentinel): a handler's own error that already
\* satisfies the sentinel.
TaggedError(sentinel) ==
    [nil |-> FALSE, msg |-> <<"custom ">> \o sentinel.msg, is |-> sentinel.is]

\* fmt.Errorf("outer %w", err): a handler wrapping what next returned.
OuterError(err) ==
    [nil |-> FALSE, msg |-> <<"outer ">> \o err.msg, is |-> err.is]

(***************************************************************************)
(* Contexts.  Only the value under ctxKey matters: has = a []HandlerInfo   *)
(* is attached, stack = its elements.                                      *)
(***************************************************************************)
Background == [has |-> FALSE, stack |-> <<>>]
WithStack(s) == [has |-> TRUE, stack |-> s]

contextWithHandlerInfoKeep(parent, info) ==
    IF parent.has THEN parent ELSE WithStack(<<info>>)

contextWithHandlerInfoReplace(parent, info) == WithStack(<<info>>)

contextWithHandlerInfo(parent, info) ==
    IF parent.has THEN WithStack(Append(parent.stack, info))
    ELSE WithStack(<<info>>)

GetHandlerInfoFromContext(ctx) ==
    IF ctx.has THEN ctx.stack ELSE <<>>


(***************************************************************************)
(* Handlers.  An identifiedHandler is [Handler, info]; the Handler is the  *)
(* caller's code, given by its behaviour.  A curried function (what        *)
(* buildHandlers produces) is the sequence of identifiedHandlers its       *)
(* closures captured by value, oldest first: <<>> is the nil curried       *)
(* function, and the closure for the last element has the closure for the  *)
(* elements before it as prevHandler / prevValidator.                      *)
(*                                                                         *)
(* A call returns [out, err, log]: log lists, in entry order, each handler *)
(* operation entered, with the request and the handler-info stack it saw.  *)
(***************************************************************************)
identifiedHandler(handler, info) == [Handler |-> handler, info |-> info]

\* A Handler is what its Validate and its Handle do (a behaviour each).
\* A struct implementing Handler the same way in both operations:
UniformHandler(beh) == [validatorFn |-> beh, handlerFn |-> beh]

\* NewAnonymousHandler(validatorFn, handlerFn): "nil" is the nil function;
\* an absent function is replaced by one that returns next(ctx, request).
\* given keeps the arguments, for the properties to refer to.
NewAnonymousHandlerNilStops(validatorFn, handlerFn) ==
    [validatorFn |-> IF validatorFn = "nil" THEN "ret" ELSE validatorFn,
     handlerFn   |-> IF handlerFn = "nil" THEN "ret" ELSE handlerFn,
     given       |-> [validatorFn |-> validatorFn, handlerFn |-> handlerFn]]

NewAnonymousHandler(validatorFn, handlerFn) ==
    [validatorFn |-> IF validatorFn = "nil" THEN "pass" ELSE validatorFn,
     handlerFn   |-> IF handlerFn = "nil" THEN "pass" ELSE handlerFn,
     given       |-> [validatorFn |-> validatorFn, handlerFn |-> handlerFn]]

\* The closures of one kind running the other kind's operation.
FnOfHandleOnly(h, kind) == h.Handler.handlerFn

\* anonHandler.Validate / anonHandler.Handle: the function the operation runs.
FnOf(h, kind) == IF kind = "handle" THEN h.Handler.handlerFn ELSE h.Handler.validatorFn

\* The zero Response; a response names the handler that produced it, the
\* request that handler received and how often it was decorated on the way up.
ZeroResponse == [by |-> 0, req |-> 0, deco |-> 0]
Result(out, err, log) == [out |-> out, err |-> err, log |-> log]
Entry(h, op, ctx, req) ==
    [id |-> h.info.ID, op |-> op, seen |-> GetHandlerInfoFromContext(ctx), req |-> req]

\* nilCurriedHandlerFunc / nilCurriedValidatorFunc
nilCurriedFuncFailing(kind) == Result(ZeroResponse, AnError, <<>>)

nilCurriedFunc(kind) == Result(ZeroResponse, NilErr, <<>>)

RECURSIVE CurriedCall(_, _, _, _)

\* The caller-supplied Handle (kind "handle") or Validate (kind "validate")
\* of handler h, with next = the curried function over prev.
HandlerCall(h, kind, ctx, req, prev) ==
    LET e == Entry(h, kind, ctx, req)
        beh == FnOf(h, kind)
    IN  CASE beh = "pass" ->
               LET r == CurriedCall(kind, prev, ctx, req)
               IN  Result(r.out, r.err, <<e>> \o r.log)
          [] beh = "ret" ->
               Result(IF kind = "handle"
                        THEN [by |-> h.info.ID, req |-> req, deco |-> 0]
                        ELSE ZeroResponse,
                      NilErr, <<e>>)
          [] beh = "fail" -> Result(ZeroResponse, AnError, <<e>>)
          [] beh = "failT" -> Result(ZeroResponse, TaggedError(Sentinel(kind)), <<e>>)
          [] beh = "depth" ->
               LET n == Len(GetHandlerInfoFromContext(ctx))
               IN  IF kind = "handle"
                     THEN Result([by |-> h.info.ID, req |-> req, deco |-> n], NilErr, <<e>>)
                     ELSE Result(ZeroResponse, IF n > 1 THEN AnError ELSE NilErr, <<e>>)
          [] beh = "xform" ->
               LET r == CurriedCall(kind, prev, ctx, 2 * req)
               IN  IF ~r.err.nil
                     THEN Result(r.out, OuterError(r.err), <<e>> \o r.log)
                     ELSE IF kind = "handle"
                            THEN Result([r.out EXCEPT !.deco = @ + 1], NilErr, <<e>> \o r.log)
                            ELSE Result(r.out, NilErr, <<e>> \o r.log)

\* The error check of a closure built by buildHandlers.
TagErrorAlways(kind, info, err) ==
    IF ~err.nil THEN WrapError(Sentinel(kind), info, err) ELSE err

TagError(kind, info, err) ==
    IF (~err.nil) /\ ~ErrorsIs(err, Sentinel(kind))
      THEN WrapError(Sentinel(kind), info, err)
      ELSE err

\* Calling the curried function hs (of the given kind) with (cx, msg).
CurriedCallEager(kind, hs, cx, msg) ==
    IF hs = <<>> THEN nilCurriedFunc(kind)
    ELSE LET handler == hs[Len(hs)]
             prev == SubSeq(hs, 1, Len(hs) - 1)
             handlerCtx == contextWithHandlerInfo(cx, handler.info)
             r == HandlerCall(handler, kind, handlerCtx, msg, prev)
             below == CurriedCall(kind, prev, handlerCtx, msg)
         IN  Result(r.out, TagError(kind, handler.info, r.err),
                    IF FnOf(handler, kind) \in CallsNext THEN r.log ELSE r.log \o below.log)

CurriedCall(kind, hs, cx, msg) ==
    IF hs = <<>> THEN nilCurriedFunc(kind)
    ELSE LET handler == hs[Len(hs)]
             prev == SubSeq(hs, 1, Len(hs) - 1)
             handlerCtx == contextWithHandlerInfo(cx, handler.info)
             r == HandlerCall(handler, kind, handlerCtx, msg, prev)
         IN  Result(r.out, TagError(kind, handler.info, r.err), r.log)

\* buildHandlers: fold the stack, oldest first, each handler wrapping the
\* curried function built so far.
RECURSIVE buildHandlersNewestInnermost(_)
buildHandlersNewestInnermost(stack) ==
    IF stack = <<>> THEN <<>>
    ELSE <<stack[Len(stack)]>> \o buildHandlersNewestInnermost(SubSeq(stack, 1, Len(stack) - 1))

RECURSIVE buildHandlers(_)
buildHandlers(stack) ==
    IF stack = <<>> THEN <<>>
    ELSE Append(buildHandlers(SubSeq(stack, 1, Len(stack) - 1)), stack[Len(stack)])

(***************************************************************************)
(* Add options.                                                            *)
(***************************************************************************)
AddOptionName(name) == [opt |-> "name", name |-> name, id |-> NoSwap]
AddOptionSwap(id) == [opt |-> "swap", name |-> "", id |-> id]
AddOptionLast == [opt |-> "last", name |-> "", id |-> NoSwap]

\* &builtAddOptions{}
ZeroAddOptions == [name |-> "", swapID |-> NoSwap, last |-> FALSE]

ApplyOption(o, built) ==
    CASE o.opt = "name" -> [built EXCEPT !.name = o.name]
      [] o.opt = "swap" -> [built EXCEPT !.swapID = o.id]
      [] o.opt = "last" -> [built EXCEPT !.last = TRUE]

RECURSIVE buildAddOptions(_)
buildAddOptions(opts) ==
    IF opts = <<>> THEN ZeroAddOptions
    ELSE ApplyOption(opts[Len(opts)], buildAddOptions(SubSeq(opts, 1, Len(opts) - 1)))

(***************************************************************************)
(* Slices.  A slice is its visible elements s and its capacity c.          *)
(***************************************************************************)
\* slices.IndexFunc(s, e.info.ID == id): first index (from 0), or -1.
IndexFunc(s, id) ==
    IF \E i \in 1..Len(s) : s[i].info.ID = id
      THEN (CHOOSE i \in 1..Len(s) :
               /\ s[i].info.ID = id
               /\ \A j \in 1..(i - 1) : s[j].info.ID # id) - 1
      ELSE -1

\* append(s, e): in place while the capacity allows; otherwise a new array
\* whose capacity the runtime picks: from an exact fit to doubling.
GrowCaps(c, need) == {need, Max(need, 2 * c)}

AppendOutcomes(s, c, e) ==
    IF Len(s) < c THEN {[s |-> Append(s, e), c |-> c]}
    ELSE {[s |-> Append(s, e), c |-> k] : k \in GrowCaps(c, Len(s) + 1)}

\* slices.Insert(s, i, v): ret is the slice it returns; inPlace tells whether
\* ret shares the backing array of s (it does when the capacity allows).
slicesInsert(s, c, i, v) ==
    [ret |-> SubSeq(s, 1, i) \o <<v>> \o SubSeq(s, i + 1, Len(s)),
     inPlace |-> Len(s) + 1 <= c]

\* What the slice header s shows after slices.Insert(s, i, v) ran and its
\* result was dropped: the same length, over the shifted array when the
\* insertion was made in place.
AfterDroppedInsert(s, c, i, v) ==
    LET r == slicesInsert(s, c, i, v)
    IN  IF r.inPlace THEN SubSeq(r.ret, 1, Len(s)) ELSE s

\* slices.DeleteFunc(s, e.info.ID == id)
DeleteFuncFirstOnly(s, id) ==
    IF IndexFunc(s, id) >= 0 THEN Tail(s) ELSE s

DeleteFuncOrLast(s, id) ==
    IF IndexFunc(s, id) >= 0 THEN SelectSeq(s, LAMBDA e : e.info.ID # id)
    ELSE SubSeq(s, 1, Len(s) - 1)

DeleteFunc(s, id) == SelectSeq(s, LAMBDA e : e.info.ID # id)

(***************************************************************************)
(* The container.                                                          *)
(***************************************************************************)
VARIABLES
    stack,            \* hc.stack, oldest first
    stackCap,         \* cap(hc.stack)
    nextID,           \* hc.nextID
    cachedHandler,    \* hc.cachedHandler
    cachedValidator,  \* hc.cachedValidator
    last,             \* the call that was made last: arguments, state before, results
    plainOnly,        \* every call so far was an Add without swap and without last
    returned,         \* the IDs Add has returned, in the order of the returns
    mux,              \* hc.mux, the sync.RWMutex
    pc,               \* where each goroutine is in the call it is making
    loc,              \* the locals of that call
    heap,             \* the backing arrays of the handler-info stacks
    scopes,           \* the contexts made by contextWithHandlerInfo
    kept              \* the continuations that handlers have stored

\* The container with its calls taken whole (Spec) reads and writes these.
vars == <<stack, stackCap, nextID, cachedHandler, cachedValidator, last, plainOnly, returned>>
\* The goroutines of the specification with interleaved calls (SpecConc).
concVars == <<mux, pc, loc>>
\* The contexts with their stacks as slices over shared arrays (SpecCtx).
ctxVars == <<heap, scopes>>
\* The continuations stored by handlers, for use after their call (SpecKept).
keptVars == <<kept>>
allVars == <<vars, concVars, ctxVars, keptVars>>
\* What Spec and SpecConc leave alone.
outsideSpec == <<concVars, ctxVars, keptVars>>
outsideConc == <<ctxVars, keptVars>>

Snapshot ==
    [stack |-> stack, stackCap |-> stackCap, nextID |-> nextID,
     cachedHandler |-> cachedHandler, cachedValidator |-> cachedValidator]

\* Goroutines calling into the container concurrently.
NumThreads == 2
Threads == 1..NumThreads

\* hc.mux unlocked: writer is the goroutine that has called Lock (0: none),
\* held tells whether its Lock has returned, readers holds the goroutines
\* between RLock and RUnlock.
MuxFree == [writer |-> 0, held |-> FALSE, readers |-> {}]

NoSnapshot ==
    [stack |-> <<>>, stackCap |-> 0, nextID |-> BaseID,
     cachedHandler |-> <<>>, cachedValidator |-> <<>>]

NoCall ==
    [op |-> "new", opts |-> ZeroAddOptions, beh |-> "pass", id |-> 0,
     ctx |-> Background, req |-> 0, res |-> nilCurriedFunc("handle"),
     pre |-> NoSnapshot]

\* The locals of a goroutine that is not in a call.  outer holds the calls
\* of this goroutine that wait for the current one to return (a handler of
\* theirs made it), innermost first.
NoLocal ==
    [op |-> "none", kind |-> "handle", opts |-> ZeroAddOptions, beh |-> "pass",
     id |-> 0, path |-> "", chain |-> <<>>, ctx |-> Background, req |-> 0,
     res |-> nilCurriedFunc("handle"), pre |-> NoSnapshot, outer |-> <<>>]

\* NewHandlerContainer
Init ==
    /\ stack = <<>>
    /\ stackCap = 0
    /\ nextID = BaseID
    /\ cachedHandler = <<>>
    /\ cachedValidator = <<>>
    /\ last = NoCall
    /\ plainOnly = TRUE
    /\ returned = <<>>
    /\ mux = MuxFree
    /\ pc = [t \in Threads |-> "idle"]
    /\ loc = [t \in Threads |-> NoLocal]
    /\ heap = <<>>
    /\ scopes = <<>>
    /\ kept = <<>>

\* The body of Add between taking the lock and the deferred buildHandlers:
\* the possible (stack, capacity) pairs afterwards.
AddStackSwapFallsThrough(s, c, idHandler, addOpts) ==
    IF addOpts.last THEN {[s |-> AfterDroppedInsert(s, c, 0, idHandler), c |-> c]}
    ELSE AppendOutcomes(s, c, idHandler)

AddStackSwapThenAppend(s, c, idHandler, addOpts) ==
    IF addOpts.swapID # NoSwap /\ IndexFunc(s, addOpts.swapID) >= 0
      THEN AppendOutcomes([s EXCEPT ![IndexFunc(s, addOpts.swapID) + 1] = idHandler],
                          c, idHandler)
      ELSE IF addOpts.last
             THEN {[s |-> AfterDroppedInsert(s, c, 0, idHandler), c |-> c]}
             ELSE AppendOutcomes(s, c, idHandler)

AddStack(s, c, idHandler, addOpts) ==
    IF addOpts.swapID # NoSwap /\ IndexFunc(s, addOpts.swapID) >= 0
      THEN {[s |-> [s EXCEPT ![IndexFunc(s, addOpts.swapID) + 1] = idHandler], c |-> c]}
      ELSE IF addOpts.last
             THEN {[s |-> AfterDroppedInsert(s, c, 0, idHandler), c |-> c]}
             ELSE AppendOutcomes(s, c, idHandler)

\* The option lists a caller passes to Add.
SwapTargets == BaseID..nextID
OptionLists(beh) ==
    {(IF t = -1 THEN <<>> ELSE <<AddOptionSwap(t)>>)
        \o (IF l THEN <<AddOptionLast>> ELSE <<>>)
        \o (IF n = "" THEN <<>> ELSE <<AddOptionName(n)>>) :
      t \in {-1} \cup SwapTargets, l \in BOOLEAN,
      n \in IF beh \in NamedBehaviours THEN Names ELSE {""}}

\* hc.nextID = hc.nextID + 1
NextIDAfterNoIncrement(n) == n

NextIDAfter(n) == n + 1

\* hc.Add(handler, options...)
Add(beh, options) ==
    /\ nextID < BaseID + MaxAdds
    /\ LET id == nextID
           addOpts == buildAddOptions(options)
           idHandler == identifiedHandler(UniformHandler(beh), HandlerInfo(id, addOpts.name))
       IN  \E o \in AddStack(stack, stackCap, idHandler, addOpts) :
             /\ nextID' = NextIDAfter(nextID)
             /\ stack' = o.s
             /\ stackCap' = o.c
             /\ cachedHandler' = buildHandlers(o.s)
             /\ cachedValidator' = buildHandlers(o.s)
             /\ last' = [NoCall EXCEPT !.op = "Add", !.opts = addOpts, !.beh = beh,
                                       !.id = id, !.pre = Snapshot]
             /\ plainOnly' = (plainOnly /\ addOpts.swapID = NoSwap /\ ~addOpts.last)
             /\ returned' = Append(returned, id)
             /\ UNCHANGED outsideSpec

\* hc.Remove(id)
Remove(id) ==
    /\ stack' = DeleteFunc(stack, id)
    /\ cachedHandler' = buildHandlers(stack')
    /\ cachedValidator' = buildHandlers(stack')
    /\ last' = [NoCall EXCEPT !.op = "Remove", !.id = id, !.pre = Snapshot]
    /\ plainOnly' = FALSE
    /\ UNCHANGED <<stackCap, nextID, returned>>
    /\ UNCHANGED outsideSpec

\* Contexts a caller can hold: context.Background(), or one a handler of the
\* current chain captured during an earlier call (as in TestContext).
StackInfos == [i \in 1..Len(stack) |-> stack[i].info]
CallerContexts ==
    {Background} \cup
    {WithStack(SubSeq(Reverse(StackInfos), 1, k)) :
        k \in 1..(IF Len(stack) < MaxCtx THEN Len(stack) ELSE MaxCtx)}

\* hc.Handle(ctx, request)
Handle(ctx, request) ==
    /\ last' = [NoCall EXCEPT !.op = "Handle", !.ctx = ctx, !.req = request,
                              !.pre = Snapshot,
                              !.res = CurriedCall("handle", cachedHandler, ctx, request)]
    /\ UNCHANGED <<stack, stackCap, nextID, cachedHandler, cachedValidator, plainOnly, returned>>
    /\ UNCHANGED outsideSpec

\* hc.Validate(ctx, request)
Validate(ctx, request) ==
    /\ last' = [NoCall EXCEPT !.op = "Validate", !.ctx = ctx, !.req = request,
                              !.pre = Snapshot,
                              !.res = CurriedCall("validate", cachedValidator, ctx, request)]
    /\ UNCHANGED <<stack, stackCap, nextID, cachedHandler, cachedValidator, plainOnly, returned>>
    /\ UNCHANGED outsideSpec

Next ==
    \/ \E beh \in Behaviours : \E options \in OptionLists(beh) : Add(beh, options)
    \/ \E id \in BaseID..nextID : Remove(id)
    \/ \E ctx \in CallerContexts, request \in Requests : Handle(ctx, request)
    \/ \E ctx \in CallerContexts, request \in Requests : Validate(ctx, request)

Spec == Init /\ [][Next]_allVars

(***************************************************************************)
(* The container with its calls interleaved: each goroutine takes hc.mux   *)
(* the way its call does and runs the call's statements one at a time.     *)
(* Lock is taken in two steps, as sync.RWMutex does: the writer first      *)
(* announces itself, which holds back readers that arrive later, and then  *)
(* waits for the readers that are inside to leave.                         *)
(***************************************************************************)
ConcBehaviours == {"pass", "ret"}
ConcOptionLists ==
    {(IF t = -1 THEN <<>> ELSE <<AddOptionSwap(t)>>)
        \o (IF l THEN <<AddOptionLast>> ELSE <<>>) :
      t \in {-1} \cup SwapTargets, l \in BOOLEAN}

WriterLabels == {"a_id", "a_incr", "a_place", "a_build", "a_store", "a_unlock",
                 "r_delete", "r_build", "r_store", "r_unlock"}
ReaderLabels == {"c_load", "c_run", "c_runlock"}
WaitLabels == {"a_wait", "r_wait"}
AddsBeforeIncrement ==
    Cardinality({t \in Threads : pc[t] \in {"a_lock", "a_wait", "a_id", "a_incr"}})

\* mux.Lock() can start: no other writer has the mutex or waits for it.
CanLockAlways(t) == TRUE

CanLock(t) == mux.writer = 0

\* mux.RLock() returns: no writer has the mutex or waits for it.
CanRLockAlways(t) == TRUE

CanRLock(t) == mux.writer = 0

Goto(t, label) == pc' = [pc EXCEPT ![t] = label]
SetLocal(t, l) == loc' = [loc EXCEPT ![t] = l]
\* The call returns: to the caller outside the container, or into the handler
\* that made the call, which runs on.
ReturnFromCall(t) ==
    IF loc[t].outer = <<>>
      THEN SetLocal(t, NoLocal) /\ Goto(t, "idle")
      ELSE /\ SetLocal(t, [loc[t].outer[1] EXCEPT !.outer = Tail(loc[t].outer)])
           /\ Goto(t, "c_back")
containerVars == <<stack, stackCap, nextID, cachedHandler, cachedValidator>>

\* A goroutine calls hc.Add, hc.Remove, hc.Handle or hc.Validate.
CallAdd(t) ==
    /\ pc[t] = "idle"
    /\ nextID + AddsBeforeIncrement < BaseID + MaxAdds
    /\ Goto(t, "a_lock")
    /\ SetLocal(t, [NoLocal EXCEPT !.op = "Add"])
    /\ UNCHANGED <<vars, mux>>
    /\ UNCHANGED outsideConc

CallRemove(t) ==
    /\ pc[t] = "idle"
    /\ Goto(t, "r_lock")
    /\ SetLocal(t, [NoLocal EXCEPT !.op = "Remove"])
    /\ UNCHANGED <<vars, mux>>
    /\ UNCHANGED outsideConc

CallRead(t, kind) ==
    /\ pc[t] = "idle"
    /\ Goto(t, "c_rlock")
    /\ SetLocal(t, [NoLocal EXCEPT !.op = IF kind = "handle" THEN "Handle" ELSE "Validate",
                                   !.kind = kind])
    /\ UNCHANGED <<vars, mux>>
    /\ UNCHANGED outsideConc

\* hc.mux.Lock(), first half: announce the writer.
LockAnnounce(t) ==
    /\ pc[t] \in {"a_lock", "r_lock"}
    /\ CanLock(t)
    /\ mux' = [mux EXCEPT !.writer = t]
    /\ Goto(t, IF pc[t] = "a_lock" THEN "a_wait" ELSE "r_wait")
    /\ UNCHANGED <<vars, loc>>
    /\ UNCHANGED outsideConc

\* hc.mux.Lock(), second half: the readers inside have left.
LockAcquire(t) ==
    /\ pc[t] \in {"a_wait", "r_wait"}
    /\ mux.readers = {}
    /\ mux' = [mux EXCEPT !.held = TRUE]
    /\ Goto(t, IF pc[t] = "a_wait" THEN "a_id" ELSE "r_delete")
    /\ SetLocal(t, [loc[t] EXCEPT !.pre = Snapshot])
    /\ UNCHANGED vars
    /\ UNCHANGED outsideConc

\* id := hc.nextID
AddReadID(t, beh, options) ==
    /\ pc[t] = "a_id"
    /\ SetLocal(t, [loc[t] EXCEPT !.id = nextID, !.beh = beh,
                                  !.opts = buildAddOptions(options)])
    /\ Goto(t, "a_incr")
    /\ UNCHANGED <<vars, mux>>
    /\ UNCHANGED outsideConc

\* hc.nextID = hc.nextID + 1
AddIncrement(t) ==
    /\ pc[t] = "a_incr"
    /\ nextID' = NextIDAfter(nextID)
    /\ Goto(t, "a_place")
    /\ UNCHANGED <<stack, stackCap, cachedHandler, cachedValidator,
                   last, plainOnly, returned, mux, loc>>
    /\ UNCHANGED outsideConc

\* Where Add goes after placing the handler: both deferred calls run on every
\* return, the one after a swap included.
AfterPlaceSwapSkipsBuild(path) == IF path = "swapped" THEN "a_unlock" ELSE "a_build"

AfterPlace(path) == "a_build"

\* The swap, the Insert or the append of Add.
AddPlace(t) ==
    /\ pc[t] = "a_place"
    /\ LET l == loc[t]
           idHandler == identifiedHandler(UniformHandler(l.beh), HandlerInfo(l.id, l.opts.name))
           path == IF l.opts.swapID # NoSwap /\ IndexFunc(stack, l.opts.swapID) >= 0
                     THEN "swapped" ELSE "inserted"
       IN  \E o \in AddStack(stack, stackCap, idHandler, l.opts) :
             /\ stack' = o.s
             /\ stackCap' = o.c
             /\ SetLocal(t, [l EXCEPT !.path = path])
             /\ Goto(t, AfterPlace(path))
    /\ UNCHANGED <<nextID, cachedHandler, cachedValidator, last, plainOnly, returned, mux>>
    /\ UNCHANGED outsideConc

\* hc.stack = slices.DeleteFunc(hc.stack, ...)
RemoveDelete(t, id) ==
    /\ pc[t] = "r_delete"
    /\ stack' = DeleteFunc(stack, id)
    /\ SetLocal(t, [loc[t] EXCEPT !.id = id])
    /\ Goto(t, "r_build")
    /\ UNCHANGED <<stackCap, nextID, cachedHandler, cachedValidator,
                   last, plainOnly, returned, mux>>
    /\ UNCHANGED outsideConc

\* The deferred hc.buildHandlers(): the fold over hc.stack is made in locals
\* and stored into hc.cachedValidator ...
BuildValidator(t) ==
    /\ pc[t] \in {"a_build", "r_build"}
    /\ cachedValidator' = buildHandlers(stack)
    /\ Goto(t, IF pc[t] = "a_build" THEN "a_store" ELSE "r_store")
    /\ UNCHANGED <<stack, stackCap, nextID, cachedHandler, last, plainOnly, returned, mux, loc>>
    /\ UNCHANGED outsideConc

\* ... and then into hc.cachedHandler.
BuildHandler(t) ==
    /\ pc[t] \in {"a_store", "r_store"}
    /\ cachedHandler' = buildHandlers(stack)
    /\ Goto(t, IF pc[t] = "a_store" THEN "a_unlock" ELSE "r_unlock")
    /\ UNCHANGED <<stack, stackCap, nextID, cachedValidator, last, plainOnly, returned, mux, loc>>
    /\ UNCHANGED outsideConc

\* The deferred hc.mux.Unlock(), after which Add returns id and the call is over.
Unlock(t) ==
    /\ pc[t] \in {"a_unlock", "r_unlock"}
    /\ mux' = [mux EXCEPT !.writer = 0, !.held = FALSE]
    /\ returned' = IF pc[t] = "a_unlock" THEN Append(returned, loc[t].id) ELSE returned
    /\ ReturnFromCall(t)
    /\ UNCHANGED <<containerVars, last, plainOnly>>
    /\ UNCHANGED outsideConc

\* hc.mux.RLock()
RLock(t) ==
    /\ pc[t] = "c_rlock"
    /\ CanRLock(t)
    /\ mux' = [mux EXCEPT !.readers = @ \cup {t}]
    /\ SetLocal(t, [loc[t] EXCEPT !.pre = Snapshot])
    /\ Goto(t, "c_load")
    /\ UNCHANGED vars
    /\ UNCHANGED outsideConc

\* The read of hc.cachedHandler (hc.cachedValidator) ...
LoadCached(t) ==
    /\ pc[t] = "c_load"
    /\ SetLocal(t, [loc[t] EXCEPT !.chain = IF loc[t].kind = "handle"
                                              THEN cachedHandler ELSE cachedValidator])
    /\ Goto(t, "c_run")
    /\ UNCHANGED <<vars, mux>>
    /\ UNCHANGED outsideConc

\* ... and the call of the function read, (ctx, request).
RunCached(t, ctx, request) ==
    /\ pc[t] \in {"c_run", "c_back"}
    /\ SetLocal(t, [loc[t] EXCEPT !.ctx = ctx, !.req = request,
                                  !.res = CurriedCall(loc[t].kind, loc[t].chain, ctx, request)])
    /\ Goto(t, "c_runlock")
    /\ UNCHANGED <<vars, mux>>
    /\ UNCHANGED outsideConc

\* The deferred hc.mux.RUnlock(), after which the call is over.  The mutex
\* counts read locks: the goroutine stays a reader while a call of its own
\* that it is nested in holds another.
RUnlock(t) ==
    /\ pc[t] = "c_runlock"
    /\ mux' = [mux EXCEPT !.readers = IF loc[t].outer = <<>> THEN @ \ {t} ELSE @]
    /\ ReturnFromCall(t)
    /\ UNCHANGED vars
    /\ UNCHANGED outsideConc

NextConc ==
    \/ \E t \in Threads : CallAdd(t)
    \/ \E t \in Threads : CallRemove(t)
    \/ \E t \in Threads, kind \in {"handle", "validate"} : CallRead(t, kind)
    \/ \E t \in Threads : LockAnnounce(t)
    \/ \E t \in Threads : LockAcquire(t)
    \/ \E t \in Threads, beh \in ConcBehaviours, options \in ConcOptionLists :
         AddReadID(t, beh, options)
    \/ \E t \in Threads : AddIncrement(t)
    \/ \E t \in Threads : AddPlace(t)
    \/ \E t \in Threads, id \in BaseID..nextID : RemoveDelete(t, id)
    \/ \E t \in Threads : BuildValidator(t)
    \/ \E t \in Threads : BuildHandler(t)
    \/ \E t \in Threads : Unlock(t)
    \/ \E t \in Threads : RLock(t)
    \/ \E t \in Threads : LoadCached(t)
    \/ \E t \in Threads, request \in Requests : RunCached(t, Background, request)
    \/ \E t \in Threads : RUnlock(t)
SpecConc == Init /\ [][NextConc]_allVars

(***************************************************************************)
(* Handlers that call back into the container.  While the cached function  *)
(* runs (the goroutine holds the read lock), one of its handlers calls     *)
(* hc.Add, hc.Remove, hc.Handle or hc.Validate on the same container; the  *)
(* call it is part of waits for that call to return.                       *)
(***************************************************************************)
MaxNest == 1

NestedCall(t, op, kind, label) ==
    /\ pc[t] = "c_run"
    /\ loc[t].chain # <<>>
    /\ Len(loc[t].outer) < MaxNest
    /\ op = "Add" => nextID + AddsBeforeIncrement < BaseID + MaxAdds
    /\ SetLocal(t, [NoLocal EXCEPT
                      !.op = op, !.kind = kind,
                      !.outer = <<[loc[t] EXCEPT !.outer = <<>>]>> \o loc[t].outer])
    /\ Goto(t, label)
    /\ UNCHANGED <<vars, mux>>
    /\ UNCHANGED outsideConc

HandlerCallsAdd(t) == NestedCall(t, "Add", "handle", "a_lock")
HandlerCallsRemove(t) == NestedCall(t, "Remove", "handle", "r_lock")
HandlerCallsRead(t, kind) ==
    NestedCall(t, IF kind = "handle" THEN "Handle" ELSE "Validate", kind, "c_rlock")

\* What goroutine t does next in the call it is in.
StepInCall(t) ==
    \/ LockAnnounce(t)
    \/ LockAcquire(t)
    \/ \E beh \in ConcBehaviours, options \in ConcOptionLists : AddReadID(t, beh, options)
    \/ AddIncrement(t)
    \/ AddPlace(t)
    \/ \E id \in BaseID..nextID : RemoveDelete(t, id)
    \/ BuildValidator(t)
    \/ BuildHandler(t)
    \/ Unlock(t)
    \/ RLock(t)
    \/ LoadCached(t)
    \/ \E request \in Requests : RunCached(t, Background, request)
    \/ RUnlock(t)

NextReentrant ==
    \/ \E t \in Threads : CallAdd(t)
    \/ \E t \in Threads : CallRemove(t)
    \/ \E t \in Threads, kind \in {"handle", "validate"} : CallRead(t, kind)
    \/ \E t \in Threads : HandlerCallsAdd(t)
    \/ \E t \in Threads : HandlerCallsRemove(t)
    \/ \E t \in Threads, kind \in {"handle", "validate"} : HandlerCallsRead(t, kind)
    \/ \E t \in Threads : StepInCall(t)

\* Every goroutine that can run does run, and sync.RWMutex hands the mutex
\* to a goroutine that waits in Lock or RLock when it next becomes free.
FairScheduling ==
    \A t \in Threads :
        /\ WF_allVars(StepInCall(t))
        /\ SF_allVars(LockAnnounce(t))
        /\ SF_allVars(RLock(t))

SpecReentrant == Init /\ [][NextReentrant]_allVars /\ FairScheduling
\* The same scheduling without handlers that call back.
SpecConcFair == Init /\ [][NextConc]_allVars /\ FairScheduling

(***************************************************************************)
(* The contexts with their stacks as Go keeps them: a []HandlerInfo is a   *)
(* pointer into a backing array, a length and the array's capacity, and    *)
(* append writes into the array of its argument whenever the capacity      *)
(* allows.  A context is named by its index in scopes, 0 being             *)
(* context.Background(), which carries no stack.                           *)
(***************************************************************************)
MaxScopes == 5
Infos == {HandlerInfo(10, ""), HandlerInfo(11, "")}

\* The nil slice, and the slice a context carries.
NilSlice == [arr |-> 0, len |-> 0]
SliceOf(sc, c) == IF c = 0 THEN NilSlice ELSE sc[c].sl
CapOf(h, sl) == IF sl.arr = 0 THEN 0 ELSE h[sl.arr].cap
\* The elements of slice sl.
ReadSlice(h, sl) == IF sl.arr = 0 THEN <<>> ELSE SubSeq(h[sl.arr].cells, 1, sl.len)

\* append(sl, info): the heap and the slice it returns.
appendInfo(h, sl, info) ==
    IF sl.len < CapOf(h, sl)
      THEN LET cells == h[sl.arr].cells
               written == IF Len(cells) > sl.len
                            THEN [cells EXCEPT ![sl.len + 1] = info]
                            ELSE Append(cells, info)
           IN  {[heap |-> [h EXCEPT ![sl.arr].cells = written],
                 sl |-> [arr |-> sl.arr, len |-> sl.len + 1]]}
      ELSE {[heap |-> Append(h, [cells |-> Append(ReadSlice(h, sl), info), cap |-> k]),
             sl |-> [arr |-> Len(h) + 1, len |-> sl.len + 1]] :
               k \in GrowCaps(CapOf(h, sl), sl.len + 1)}

\* GetHandlerInfoFromContext(ctx), read now.
StackOf(c) == ReadSlice(heap, SliceOf(scopes, c))

\* contextWithHandlerInfo(parent, info): the child carries append(stack, info).
\* made records the stack the child was given.
ExtendStack(parent, info) ==
    /\ Len(scopes) < MaxScopes
    /\ \E o \in appendInfo(heap, SliceOf(scopes, parent), info) :
         /\ heap' = o.heap
         /\ scopes' = Append(scopes, [sl |-> o.sl, parent |-> parent, info |-> info,
                                      made |-> Append(StackOf(parent), info)])
    /\ UNCHANGED <<vars, concVars, keptVars>>

NextCtx == \E parent \in 0..Len(scopes), info \in Infos : ExtendStack(parent, info)
SpecCtx == Init /\ [][NextCtx]_allVars

(***************************************************************************)
(* Concurrent Handle calls with the contexts on the heap: each goroutine   *)
(* takes the read lock, reads hc.cachedHandler and goes down the chain one *)
(* closure at a time, every closure extending the context it was given.    *)
(* Handlers are added only before the first call.                          *)
(***************************************************************************)
CallBehaviours == {"pass", "ret", "fail"}

\* The locals of a Handle call: the function read, the caller's context and
\* request, the closures entered (frames), the context and request the next
\* closure gets (the handlers pass on what they got), and what the handlers
\* observed.
CallLocal(chain, c, request) ==
    [op |-> "Handle", chain |-> chain, ctx |-> c, req |-> request,
     frames |-> <<>>, cur |-> c, msg |-> request, log |-> <<>>,
     res |-> nilCurriedFunc("handle")]

\* What a context reads as a value: Background, or a context with a stack.
ValueOf(c) == IF c = 0 THEN Background ELSE WithStack(StackOf(c))

\* hc.Add(handler), made while no call has been made yet.
InstallHandler(beh) ==
    /\ scopes = <<>>
    /\ \A t \in Threads : pc[t] = "idle"
    /\ Add(beh, <<>>)

\* hc.Handle(ctx, request) up to the call of the function read from
\* hc.cachedHandler: RLock, and the read.
BeginHandle(t, c, request) ==
    /\ pc[t] = "idle"
    /\ CanRLock(t)
    /\ mux' = [mux EXCEPT !.readers = @ \cup {t}]
    /\ SetLocal(t, CallLocal(cachedHandler, c, request))
    /\ Goto(t, IF cachedHandler = <<>> THEN "ret" ELSE "down")
    /\ UNCHANGED <<vars, ctxVars, keptVars>>

\* The next closure of the chain is entered: it extends the context it got
\* with its handler's info and calls the handler, which looks at its stack
\* and either calls next (the previous closure) or returns.
EnterClosure(t) ==
    /\ pc[t] = "down"
    /\ Len(scopes) < MaxScopes
    /\ LET l == loc[t]
           handler == l.chain[Len(l.chain) - Len(l.frames)]
           beh == FnOf(handler, "handle")
           more == Len(l.frames) + 1 < Len(l.chain)
       IN  \E o \in appendInfo(heap, SliceOf(scopes, l.cur), handler.info) :
             LET handlerCtx == Len(scopes) + 1
                 seen == ReadSlice(o.heap, o.sl)
                 e == Entry(handler, "handle", WithStack(seen), l.msg)
             IN  /\ heap' = o.heap
                 /\ scopes' = Append(scopes, [sl |-> o.sl, parent |-> l.cur,
                                              info |-> handler.info,
                                              made |-> Append(StackOf(l.cur), handler.info)])
                 /\ SetLocal(t, [l EXCEPT
                       !.frames = Append(@, [h |-> handler, scope |-> handlerCtx, req |-> l.msg]),
                       !.log = Append(@, e),
                       !.cur = handlerCtx,
                       !.res = CASE beh = "ret" ->
                                        Result([by |-> handler.info.ID, req |-> l.msg, deco |-> 0],
                                               NilErr, <<>>)
                                   [] beh = "fail" -> Result(ZeroResponse, AnError, <<>>)
                                   [] OTHER -> nilCurriedFunc("handle")])
                 /\ Goto(t, IF beh \in CallsNext /\ more THEN "down" ELSE "up")
    /\ UNCHANGED <<vars, mux, keptVars>>

\* The way back up, innermost first: a handler that called next returns what
\* next returned, and its closure makes its error check.
RECURSIVE ReturnThrough(_, _)
ReturnThrough(frames, r) ==
    IF frames = <<>> THEN r
    ELSE LET f == frames[Len(frames)]
         IN  ReturnThrough(SubSeq(frames, 1, Len(frames) - 1),
                           Result(r.out, TagError("handle", f.h.info, r.err), <<>>))

\* The handlers and closures return, up to hc.Handle's return statement.
Unwind(t) ==
    /\ pc[t] = "up"
    /\ SetLocal(t, [loc[t] EXCEPT !.res = ReturnThrough(loc[t].frames, loc[t].res)])
    /\ Goto(t, "ret")
    /\ UNCHANGED <<vars, mux, ctxVars, keptVars>>

\* The deferred hc.mux.RUnlock(); the call is over.
EndHandle(t) ==
    /\ pc[t] = "ret"
    /\ mux' = [mux EXCEPT !.readers = @ \ {t}]
    /\ SetLocal(t, NoLocal)
    /\ Goto(t, "idle")
    /\ UNCHANGED <<vars, ctxVars, keptVars>>

NextCalls ==
    \/ \E beh \in CallBehaviours : InstallHandler(beh)
    \/ \E t \in Threads, c \in 0..Len(scopes), request \in Requests : BeginHandle(t, c, request)
    \/ \E t \in Threads : EnterClosure(t)
    \/ \E t \in Threads : Unwind(t)
    \/ \E t \in Threads : EndHandle(t)
SpecCalls == Init /\ [][NextCalls]_allVars

(***************************************************************************)
(* Handlers made by the function adapter: the container with every handler *)
(* built by NewAnonymousHandler from a validate and a handle function,     *)
(* either of which can be nil.                                             *)
(***************************************************************************)
\* The functions given to the adapter: nil, or one that answers, fails, or
\* answers from the depth of the handler-info stack it reads.
AdapterFns == {"nil", "ret", "fail", "depth"}

\* hc.Add(NewAnonymousHandler(validatorFn, handlerFn))
AddAnonymous(validatorFn, handlerFn) ==
    /\ nextID < BaseID + MaxAdds
    /\ LET id == nextID
           idHandler == identifiedHandler(NewAnonymousHandler(validatorFn, handlerFn),
                                          HandlerInfo(id, ""))
       IN  \E o \in AddStack(stack, stackCap, idHandler, ZeroAddOptions) :
             /\ nextID' = NextIDAfter(nextID)
             /\ stack' = o.s
             /\ stackCap' = o.c
             /\ cachedHandler' = buildHandlers(o.s)
             /\ cachedValidator' = buildHandlers(o.s)
             /\ last' = [NoCall EXCEPT !.op = "Add", !.id = id, !.pre = Snapshot]
             /\ plainOnly' = plainOnly
             /\ returned' = Append(returned, id)
             /\ UNCHANGED outsideSpec

NextAdapter ==
    \/ \E validatorFn \in AdapterFns, handlerFn \in AdapterFns :
         AddAnonymous(validatorFn, handlerFn)
    \/ \E request \in Requests : Handle(Background, request)
    \/ \E request \in Requests : Validate(Background, request)
SpecAdapter == Init /\ [][NextAdapter]_allVars

(***************************************************************************)
(* Handlers whose two operations differ: the container with every handler  *)
(* a Handler whose Validate does one thing and whose Handle another.       *)
(***************************************************************************)
OperationBehaviours == {"pass", "ret"}

\* A struct implementing Handler: Validate behaves as validateBeh, Handle as
\* handleBeh.
SplitHandler(validateBeh, handleBeh) == [validatorFn |-> validateBeh, handlerFn |-> handleBeh]

\* hc.Add(handler, options...)
AddSplit(validateBeh, handleBeh, options) ==
    /\ nextID < BaseID + MaxAdds
    /\ LET id == nextID
           addOpts == buildAddOptions(options)
           idHandler == identifiedHandler(SplitHandler(validateBeh, handleBeh),
                                          HandlerInfo(id, addOpts.name))
       IN  \E o \in AddStack(stack, stackCap, idHandler, addOpts) :
             /\ nextID' = NextIDAfter(nextID)
             /\ stack' = o.s
             /\ stackCap' = o.c
             /\ cachedHandler' = buildHandlers(o.s)
             /\ cachedValidator' = buildHandlers(o.s)
             /\ last' = [NoCall EXCEPT !.op = "Add", !.opts = addOpts,
                                       !.id = id, !.pre = Snapshot]
             /\ plainOnly' = (plainOnly /\ addOpts.swapID = NoSwap /\ ~addOpts.last)
             /\ returned' = Append(returned, id)
             /\ UNCHANGED outsideSpec

NextSplit ==
    \/ \E validateBeh \in OperationBehaviours, handleBeh \in OperationBehaviours,
          options \in ConcOptionLists : AddSplit(validateBeh, handleBeh, options)
    \/ \E id \in BaseID..nextID : Remove(id)
    \/ \E request \in Requests : Handle(Background, request)
    \/ \E request \in Requests : Validate(Background, request)
SpecSplit == Init /\ [][NextSplit]_allVars

(***************************************************************************)
(* Continuations kept past their call.  A handler's next is the closure    *)
(* buildHandlers made for the handlers that were older than it; a handler  *)
(* may store it and call it after its call has returned and the container  *)
(* has been changed.  Each closure holds its own copy of the               *)
(* identifiedHandler it wraps (handler := handler), taken from the slot of *)
(* hc.stack the loop was at.                                               *)
(***************************************************************************)
MaxKept == 1
KeptBehaviours == {"pass", "ret"}

Closure(h, slot) == [copy |-> h, slot |-> slot]

\* The identifiedHandler a closure calls when it runs, s being hc.stack then.
CapturedHandlerBySlot(c, s) == IF c.slot <= Len(s) THEN s[c.slot] ELSE c.copy

CapturedHandler(c, s) == c.copy

\* prevHandler of the closure at position p of a chain: the closures of the
\* handlers before it.
ContinuationOf(chain, p) == [i \in 1..(p - 1) |-> Closure(chain[i], i)]

\* Calling a stored continuation with (ctx, request).
RunContinuation(next, s, ctx, request) ==
    CurriedCall("handle", [i \in 1..Len(next) |-> CapturedHandler(next[i], s)], ctx, request)

\* hc.Handle(ctx, request), in which the handler at position p of the chain
\* is entered and stores its next.
HandleAndKeep(p, request) ==
    /\ Len(kept) < MaxKept
    /\ p \in 1..Len(cachedHandler)
    /\ LET r == CurriedCall("handle", cachedHandler, Background, request)
       IN  /\ \E i \in 1..Len(r.log) : r.log[i].id = cachedHandler[p].info.ID
           /\ last' = [NoCall EXCEPT !.op = "Handle", !.req = request,
                                     !.pre = Snapshot, !.res = r]
    /\ kept' = Append(kept, [by |-> cachedHandler[p].info.ID,
                             next |-> ContinuationOf(cachedHandler, p),
                             below |-> SubSeq(cachedHandler, 1, p - 1)])
    /\ UNCHANGED <<stack, stackCap, nextID, cachedHandler, cachedValidator, plainOnly, returned>>
    /\ UNCHANGED <<concVars, ctxVars>>

\* The handler that stored the i-th kept continuation calls it.
InvokeKept(i, request) ==
    /\ i \in 1..Len(kept)
    /\ last' = [NoCall EXCEPT !.op = "Invoke", !.id = i, !.req = request,
                              !.pre = Snapshot,
                              !.res = RunContinuation(kept[i].next, stack, Background, request)]
    /\ UNCHANGED <<stack, stackCap, nextID, cachedHandler, cachedValidator, plainOnly, returned>>
    /\ UNCHANGED outsideSpec

NextKept ==
    \/ \E beh \in KeptBehaviours, options \in ConcOptionLists : Add(beh, options)
    \/ \E id \in BaseID..nextID : Remove(id)
    \/ \E p \in 1..MaxAdds, request \in Requests : HandleAndKeep(p, request)
    \/ \E i \in 1..MaxKept, request \in Requests : InvokeKept(i, request)
SpecKept == Init /\ [][NextKept]_allVars

(***************************************************************************)
(* Vocabulary of the properties.                                           *)
(***************************************************************************)
IDsOf(s) == [i \in 1..Len(s) |-> s[i].info.ID]
LogIDs(log) == [i \in 1..Len(log) |-> log[i].id]
AllCallNext(s) ==
    \A i \in 1..Len(s) : \A kind \in {"handle", "validate"} : FnOf(s[i], kind) \in CallsNext
Present(s, id) == \E i \in 1..Len(s) : s[i].info.ID = id
IsCall == last.op \in {"Handle", "Validate"}
CallKind == IF last.op = "Handle" THEN "handle" ELSE "validate"
\* The curried function the last Handle/Validate call ran.
CalledChain ==
    IF last.op = "Handle" THEN last.pre.cachedHandler ELSE last.pre.cachedValidator
\* The handler behind the i-th entry of the last call's log.
EnteredHandler(i) ==
    CHOOSE h \in {CalledChain[j] : j \in 1..Len(CalledChain)} :
        h.info.ID = last.res.log[i].id
\* The handler the last Add built.
AddedHandler == identifiedHandler(UniformHandler(last.beh), HandlerInfo(last.id, last.opts.name))
SwapHit ==
    /\ last.op = "Add"
    /\ last.opts.swapID # NoSwap
    /\ Present(last.pre.stack, last.opts.swapID)
SwapMiss ==
    /\ last.op = "Add"
    /\ last.opts.swapID # NoSwap
    /\ ~Present(last.pre.stack, last.opts.swapID)
\* What a call of the current chains enters, from a fresh context.
ProbeLog(kind, chain) == CurriedCall(kind, chain, Background, 1).log
\* The decimal text of the IDs the model allocates, written out.
DecimalText(id) == <<"1", Digits[(id - 10) + 1]>>
CountOf(tok, msg) == Cardinality({i \in 1..Len(msg) : msg[i] = tok})

(***************************************************************************)
(* C1.  After nothing but Adds without swap and without last, a Handle or  *)
(* a Validate call whose handlers all call their continuation enters every *)
(* handler added, newest first: the i-th entered is the i-th most recently *)
(* added (IDs are handed out in the order of the Adds), each in the        *)
(* operation that was called.                                              *)
(***************************************************************************)
C1_NewestAddedFirst ==
    (plainOnly /\ IsCall /\ AllCallNext(stack)) =>
        /\ Len(last.res.log) = nextID - BaseID
        /\ \A i \in 1..Len(last.res.log) :
              /\ last.res.log[i].id = nextID - i
              /\ last.res.log[i].op = CallKind

C1_Witness ==
    /\ plainOnly /\ last.op = "Handle" /\ AllCallNext(stack)
    /\ Len(stack) = 3
    /\ LogIDs(last.res.log) = <<12, 11, 10>>

(***************************************************************************)
(* C2.  An Add with the last option whose swap target is unspecified or    *)
(* absent puts the new handler at the head of the sequence, in front of    *)
(* all entries that were there, and the compiled chain enters it after     *)
(* every other handler when all handlers call through.                     *)
(***************************************************************************)
C2_InsertLastIsHeadAndInvokedLast ==
    (last.op = "Add" /\ last.opts.last /\ ~SwapHit) =>
        /\ stack = <<AddedHandler>> \o last.pre.stack
        /\ cachedHandler = stack
        /\ AllCallNext(stack) =>
              LET log == ProbeLog("handle", cachedHandler)
              IN  /\ Len(log) = Len(last.pre.stack) + 1
                  /\ log[Len(log)].id = last.id

(***************************************************************************)
(* C3.  An Add whose swap target is present at position k leaves the       *)
(* length of the sequence unchanged, puts the new handler with its new ID  *)
(* at position k, leaves no entry with the target's ID and leaves every    *)
(* other position as it was, with or without the last option.              *)
(***************************************************************************)
C3_SwapPreservesPosition ==
    SwapHit =>
        LET k == IndexFunc(last.pre.stack, last.opts.swapID) + 1
        IN  /\ Len(stack) = Len(last.pre.stack)
            /\ stack[k] = AddedHandler
            /\ last.id = last.pre.nextID
            /\ ~Present(stack, last.opts.swapID)
            /\ \A i \in 1..Len(stack) : i # k => stack[i] = last.pre.stack[i]

C3_Witness ==
    /\ SwapHit
    /\ last.opts.last
    /\ Len(stack) = 2
    /\ stack[1].info.ID = last.id

(***************************************************************************)
(* C4.  An Add whose swap target is not in the sequence leaves the         *)
(* sequence a tail append of the new handler, or, with the last option,    *)
(* a head insert of it.                                                    *)
(***************************************************************************)
C4_SwapMissInsertsNormally ==
    SwapMiss =>
        stack = IF last.opts.last THEN <<AddedHandler>> \o last.pre.stack
                ELSE Append(last.pre.stack, AddedHandler)

\* The part of C4 that the code keeps: an Add with an absent swap target
\* ends in a state the same Add without the swap option can end in.
C4_SwapMissAsWithoutSwap ==
    SwapMiss =>
        [s |-> stack, c |-> stackCap] \in
            AddStack(last.pre.stack, last.pre.stackCap, AddedHandler,
                     [last.opts EXCEPT !.swapID = NoSwap])

(***************************************************************************)
(* C5.  Remove of an ID that is present deletes exactly that entry: the    *)
(* sequence is the old one without it (one shorter, the others in their    *)
(* order), and calls made afterwards do not enter the removed handler and  *)
(* enter the remaining ones in the order they had before.                  *)
(***************************************************************************)
C5_RemoveDeletesExactlyThatEntry ==
    (last.op = "Remove" /\ Present(last.pre.stack, last.id)) =>
        LET k == IndexFunc(last.pre.stack, last.id) + 1
            old == last.pre.stack
        IN  /\ Len(stack) = Len(old) - 1
            /\ stack = SubSeq(old, 1, k - 1) \o SubSeq(old, k + 1, Len(old))
            /\ \A kind \in {"handle", "validate"} :
                  LET chain == IF kind = "handle" THEN cachedHandler ELSE cachedValidator
                      before == IF kind = "handle" THEN last.pre.cachedHandler
                                ELSE last.pre.cachedValidator
                      log == ProbeLog(kind, chain)
                  IN  /\ \A i \in 1..Len(log) : log[i].id # last.id
                      /\ AllCallNext(old) =>
                            LogIDs(log) =
                              SelectSeq(LogIDs(ProbeLog(kind, before)),
                                        LAMBDA id : id # last.id)

C5_Witness ==
    /\ last.op = "Remove"
    /\ Len(last.pre.stack) = 3
    /\ last.pre.stack[2].info.ID = last.id
    /\ AllCallNext(last.pre.stack)
    /\ Len(stack) = 2

(***************************************************************************)
(* C6.  Remove of an ID that is not in the sequence changes nothing: the   *)
(* sequence, both compiled chains and the next-ID counter are as before.   *)
(***************************************************************************)
C6_RemoveAbsentIsNoOp ==
    (last.op = "Remove" /\ ~Present(last.pre.stack, last.id)) =>
        /\ stack = last.pre.stack
        /\ stackCap = last.pre.stackCap
        /\ nextID = last.pre.nextID
        /\ cachedHandler = last.pre.cachedHandler
        /\ cachedValidator = last.pre.cachedValidator

C6_Witness ==
    /\ last.op = "Remove"
    /\ ~Present(last.pre.stack, last.id)
    /\ last.id < nextID
    /\ Len(stack) = 2

(***************************************************************************)
(* C7.  With no handler in the container, Handle returns the zero response *)
(* and no error, Validate returns no error, and no handler is entered.     *)
(***************************************************************************)
C7_EmptyChain ==
    (IsCall /\ stack = <<>>) =>
        /\ last.res.out = ZeroResponse
        /\ last.res.err.nil
        /\ last.res.log = <<>>

C7_Witness ==
    /\ last.op = "Handle"
    /\ stack = <<>>
    /\ nextID = BaseID + 2
    /\ last.res.err.nil

(***************************************************************************)
(* Errors of the last call.  The deepest handler entered is the last entry *)
(* of the log; the handlers entered before it called their continuation.   *)
(***************************************************************************)
Depth == Len(last.res.log)
Deepest == EnteredHandler(Depth)
OuterBehaviours == {FnOf(EnteredHandler(i), CallKind) : i \in 1..(Depth - 1)}
OuterWraps == Cardinality({i \in 1..(Depth - 1) : FnOf(EnteredHandler(i), CallKind) = "xform"})
SentinelText == IF last.op = "Handle" THEN "handleError" ELSE "validateError"
\* "<category> handler=<id> <E>" or "<category> handler=<id>(<name>) <E>"
AttributedText(h, text) ==
    <<SentinelText, " handler=">> \o DecimalText(h.info.ID)
        \o (IF h.info.Name = "" THEN <<>> ELSE <<"(", h.info.Name, ")">>)
        \o <<" ", text>>
RECURSIVE Times(_, _)
Times(tok, n) == IF n = 0 THEN <<>> ELSE <<tok>> \o Times(tok, n - 1)

(***************************************************************************)
(* C8.  When the deepest handler entered returns its own plain error E     *)
(* (one that does not satisfy the chain's sentinel), the error the call    *)
(* returns satisfies the sentinel (ErrHandle for Handle, ErrValidate for   *)
(* Validate) and E, and its message is "<category> handler=<id> <E>", with *)
(* "(<name>)" after the ID when that handler has a name; handlers above    *)
(* that wrap what they return only put their own text in front of it.      *)
(***************************************************************************)
C8_Attribution ==
    (IsCall /\ Depth >= 1 /\ FnOf(Deepest, CallKind) = "fail") =>
        /\ ErrorsIs(last.res.err, Sentinel(CallKind))
        /\ ErrorsIs(last.res.err, AnError)
        /\ last.res.err.msg =
              Times("outer ", OuterWraps) \o AttributedText(Deepest, "an_error")

C8_Witness ==
    /\ last.op = "Handle"
    /\ Depth = 2
    /\ FnOf(Deepest, CallKind) = "fail"
    /\ Deepest.info.Name = "a"
    /\ OuterBehaviours = {"pass"}
    /\ last.res.err.msg = <<"handleError", " handler=", "1", "0", "(", "a", ")", " ", "an_error">>

(***************************************************************************)
(* C9.  An error is tagged with the sentinel and a handler identity at     *)
(* most once, by the closure of the handler that failed: the message       *)
(* carries one "handler=" and it names the deepest handler, or none when   *)
(* that handler's error already satisfied the sentinel.  Handlers above    *)
(* that return the error unchanged leave it identical to what the chain    *)
(* up to the failing handler returns; handlers above that wrap it leave    *)
(* exactly what they returned.                                             *)
(***************************************************************************)
C9_OnlyInnermostTagged ==
    (IsCall /\ Depth >= 1 /\ FnOf(Deepest, CallKind) \in {"fail", "failT"}) =>
        LET msg == last.res.err.msg
            inner == CurriedCall(CallKind,
                                 SubSeq(CalledChain, 1, Len(CalledChain) - Depth + 1),
                                 Background, last.req).err
        IN  /\ ErrorsIs(last.res.err, Sentinel(CallKind))
            /\ CountOf(" handler=", msg) = IF FnOf(Deepest, CallKind) = "fail" THEN 1 ELSE 0
            /\ \A i \in 1..Len(msg) :
                  msg[i] = " handler=" =>
                      SubSeq(msg, i + 1, i + 2) = DecimalText(Deepest.info.ID)
            /\ msg = Times("outer ", OuterWraps) \o inner.msg
            /\ last.res.err.is = inner.is
            /\ OuterWraps = 0 => last.res.err = inner

C9_Witness ==
    /\ last.op = "Handle"
    /\ Depth = 3
    /\ FnOf(Deepest, CallKind) = "fail"
    /\ FnOf(EnteredHandler(1), CallKind) = "pass"
    /\ FnOf(EnteredHandler(2), CallKind) = "xform"
    /\ last.res.err.msg = <<"outer ", "handleError", " handler=", "1", "0", " ", "an_error">>

(***************************************************************************)
(* C10.  In a call started with a context that carries no stack, the i-th  *)
(* handler entered sees the HandlerInfo of the handlers entered so far,    *)
(* outermost (newest in the chain) first and itself last; the same in      *)
(* Validate and in Handle.  A context that never passed through the        *)
(* container reads as the empty stack.                                     *)
(***************************************************************************)
C10_StackCorrectness ==
    /\ GetHandlerInfoFromContext(Background) = <<>>
    /\ (IsCall /\ ~last.ctx.has) =>
          \A i \in 1..Depth :
              /\ Len(last.res.log[i].seen) = i
              /\ \A j \in 1..i :
                    /\ last.res.log[i].seen[j] = EnteredHandler(j).info
                    /\ last.res.log[i].seen[j] = CalledChain[Len(CalledChain) - j + 1].info

C10_Witness ==
    /\ last.op = "Validate"
    /\ ~last.ctx.has
    /\ Depth = 3
    /\ last.res.log[3].seen =
          <<HandlerInfo(12, "a"), HandlerInfo(11, ""), HandlerInfo(10, "a")>>
    /\ last.res.log[2].seen = <<HandlerInfo(12, "a"), HandlerInfo(11, "")>>


(***************************************************************************)
(* C12.  IDs are handed out in increasing order: the first Add of a new    *)
(* container returns 10, every later Add (plain, last or swap, target      *)
(* found or not) returns one more than the Add before it, Remove, Handle   *)
(* and Validate leave the counter alone; so no ID is returned twice, none  *)
(* is handed out again after its handler was removed, and 0 is never       *)
(* returned.                                                               *)
(***************************************************************************)
C12_IDsMonotonic ==
    /\ Len(returned) >= 1 => returned[1] = 10
    /\ \A i \in 2..Len(returned) : returned[i] = returned[i - 1] + 1
    /\ \A i, j \in 1..Len(returned) : i # j => returned[i] # returned[j]
    /\ \A i \in 1..Len(returned) : returned[i] # 0
    /\ nextID = 10 + Len(returned)
    /\ last.op = "Add" => last.id = last.pre.nextID /\ nextID = last.pre.nextID + 1
    /\ last.op \in {"Remove", "Handle", "Validate"} => nextID = last.pre.nextID
    /\ \A i \in 1..Len(stack) : stack[i].info.ID < nextID

\* A third Add, with a swap target that is not there, after the stack was
\* emptied again.
C12_Witness ==
    /\ SwapMiss
    /\ last.opts.last
    /\ last.id = 12
    /\ last.pre.stack = <<>>
    /\ returned = <<10, 11, 12>>

(***************************************************************************)
(* C13.  Whatever Adds (with any options) and Removes were made, no two    *)
(* entries of hc.stack carry the same ID.                                  *)
(***************************************************************************)
C13_UniqueIDs ==
    \A i, j \in 1..Len(stack) : i # j => stack[i].info.ID # stack[j].info.ID

\* A swap has just replaced an entry of a stack of two.
C13_Witness ==
    /\ SwapHit
    /\ Len(stack) = 2
    /\ Present(stack, last.id)

(***************************************************************************)
(* C19.  A handler that returns without calling next ends the call: it is  *)
(* the last handler entered, no handler older than it in the chain is      *)
(* entered, and when every handler outside it hands results through        *)
(* untouched (or there is none) the container returns that handler's       *)
(* response and its error, wrapped with the sentinel and the handler's     *)
(* info unless it already is the sentinel.                                 *)
(***************************************************************************)
PositionIn(chain, id) == CHOOSE p \in 1..Len(chain) : chain[p].info.ID = id
\* What a handler that does not call next returns by itself.
OwnResponse(h, req) ==
    IF CallKind = "handle" /\ FnOf(h, CallKind) = "ret"
      THEN [by |-> h.info.ID, req |-> req, deco |-> 0]
      ELSE ZeroResponse
OwnError(h) ==
    CASE FnOf(h, CallKind) = "ret" -> NilErr
      [] FnOf(h, CallKind) = "fail" -> AnError
      [] FnOf(h, CallKind) = "failT" -> TaggedError(Sentinel(CallKind))

WritersInside == {t \in Threads : pc[t] \in WriterLabels}
ReadersInside == {t \in Threads : pc[t] \in ReaderLabels}
CachesMatch(s) == cachedHandler = buildHandlers(s) /\ cachedValidator = buildHandlers(s)

(***************************************************************************)
(* C14.  Whenever no goroutine holds hc.mux exclusively, cachedHandler and *)
(* cachedValidator are the fold of buildHandlers over the current stack,   *)
(* oldest first over the nil function: Add (after a swap too) and Remove   *)
(* rebuild both before they unlock, so the function a Handle or Validate   *)
(* call reads is the one of the stack as it is.                            *)
(***************************************************************************)
C14_CacheIsCompiledStack ==
    /\ ~mux.held => CachesMatch(stack)
    /\ \A t \in Threads : pc[t] \in {"c_run", "c_runlock"} =>
         loc[t].chain = buildHandlers(stack)

\* The third Add has swapped out handler 10 (only a swap puts ID 12 under
\* ID 11) and unlocked, and a Handle call has read the rebuilt function.
C14_Witness ==
    /\ ~mux.held
    /\ mux.writer = 0
    /\ IDsOf(stack) = <<12, 11>>
    /\ \E t \in Threads :
         /\ pc[t] = "c_run"
         /\ loc[t].kind = "handle"
         /\ IDsOf(loc[t].chain) = <<12, 11>>

(***************************************************************************)
(* C15.  A Validate or Handle call that is between its RLock and its       *)
(* RUnlock runs against one committed chain: no Add or Remove is inside    *)
(* its critical section, the container is as it was when the call took the *)
(* read lock, the function it read is the fold over that stack, and its    *)
(* result is the result of that function.  A writer that called Lock in    *)
(* the meantime is still waiting, so the call sees the chain from before   *)
(* that mutation for its whole duration.                                   *)
(***************************************************************************)
C15_ReadersSeeCommittedChain ==
    \A t \in ReadersInside :
      /\ ~mux.held
      /\ WritersInside = {}
      /\ Snapshot = loc[t].pre
      /\ pc[t] \in {"c_run", "c_runlock"} => loc[t].chain = buildHandlers(loc[t].pre.stack)
      /\ pc[t] = "c_runlock" =>
           loc[t].res = CurriedCall(loc[t].kind, buildHandlers(stack), loc[t].ctx, loc[t].req)

\* A call has its result from a chain of two while an Add or Remove waits
\* in Lock for it to leave.
C15_Witness ==
    \E t, w \in Threads :
      /\ pc[t] = "c_runlock"
      /\ Len(loc[t].chain) = 2
      /\ Len(loc[t].res.log) >= 1
      /\ pc[w] \in WaitLabels
      /\ mux.writer = w

(***************************************************************************)
(* C16.  Concurrent Adds and Removes, with Handle and Validate calls in    *)
(* flight, are serialized: when a mutation unlocks, the container is what  *)
(* that one call, run alone, makes of the container the previous mutation  *)
(* left; no two Adds return the same ID; and the stack a completed         *)
(* mutation leaves has no ID twice and misses no ID: the handler an Add    *)
(* has just placed is in it, and so is every handler the call was not      *)
(* about.                                                                  *)
(***************************************************************************)
\* The container is what Add(beh, opts), run alone from pre, leaves.
AddEffect(l) ==
    LET pre == l.pre
        idHandler == identifiedHandler(UniformHandler(l.beh), HandlerInfo(pre.nextID, l.opts.name))
    IN  /\ l.id = pre.nextID
        /\ nextID = pre.nextID + 1
        /\ [s |-> stack, c |-> stackCap] \in AddStack(pre.stack, pre.stackCap, idHandler, l.opts)
        /\ CachesMatch(stack)
\* The container is what Remove(id), run alone from pre, leaves.
RemoveEffect(l) ==
    /\ stack = DeleteFunc(l.pre.stack, l.id)
    /\ stackCap = l.pre.stackCap
    /\ nextID = l.pre.nextID
    /\ CachesMatch(stack)
\* The part that holds although Add drops the result of slices.Insert.
C16_SerialEffect ==
    /\ \A t \in Threads :
         /\ pc[t] = "a_unlock" => AddEffect(loc[t])
         /\ pc[t] = "r_unlock" => RemoveEffect(loc[t])
         /\ pc[t] \in WriterLabels => WritersInside = {t} /\ ReadersInside = {}
    /\ WritersInside = {} => Snapshot.nextID = BaseID + Len(returned)
    /\ \A i, j \in 1..Len(returned) : i # j => returned[i] # returned[j]
    /\ C13_UniqueIDs

C16_MutationsSerialized ==
    /\ C16_SerialEffect
    /\ \A t \in Threads :
         /\ pc[t] = "a_unlock" =>
              /\ Present(stack, loc[t].id)
              /\ \A i \in 1..Len(loc[t].pre.stack) :
                   loc[t].pre.stack[i].info.ID # loc[t].opts.swapID =>
                     Present(stack, loc[t].pre.stack[i].info.ID)
         /\ pc[t] = "r_unlock" =>
              \A i \in 1..Len(loc[t].pre.stack) :
                loc[t].pre.stack[i].info.ID # loc[t].id =>
                  Present(stack, loc[t].pre.stack[i].info.ID)

(***************************************************************************)
(* C18.  While an Add or a Remove is inside its critical section, no       *)
(* Validate or Handle call and no other Add or Remove is inside its own.   *)
(* Validate and Handle calls can be inside together, and a call waiting in *)
(* RLock is held back only by a mutation that has called Lock, never by    *)
(* the calls that are inside.                                              *)
(***************************************************************************)
C18_Exclusion ==
    /\ \A t \in WritersInside : \A u \in Threads \ {t} : pc[u] \notin (WriterLabels \cup ReaderLabels)
    /\ mux.readers = ReadersInside
    /\ \A t \in Threads :
         (pc[t] = "c_rlock" /\ \A u \in Threads : pc[u] \notin (WriterLabels \cup WaitLabels))
           => ENABLED RLock(t)

\* Two calls are inside at once, one of them running a chain of at least one handler.
C18_Witness ==
    \E t, u \in Threads :
      /\ t # u
      /\ pc[t] = "c_run"
      /\ pc[u] \in {"c_run", "c_runlock"}
      /\ mux.readers = {t, u}
      /\ Len(loc[t].chain) >= 1

(***************************************************************************)
(* C11.  Extending a context never changes a stack another context reads:  *)
(* every context made by contextWithHandlerInfo reads its parent's stack   *)
(* followed by its own info, and keeps reading the stack it was given,     *)
(* whatever extensions of its parent, of its siblings or of itself are     *)
(* made afterwards.                                                        *)
(***************************************************************************)
C11_SiblingStacksUntouched ==
    \A c \in 1..Len(scopes) :
      /\ StackOf(c) = Append(StackOf(scopes[c].parent), scopes[c].info)
      /\ StackOf(c) = scopes[c].made

(***************************************************************************)
(* C17.  Handle calls running concurrently while no Add or Remove is made  *)
(* all run the function compiled from the stack, and each one observes and *)
(* returns what it would if it ran alone: the stack every handler entered  *)
(* reads from its context, when entered and later, is the caller's stack   *)
(* followed by the infos of the handlers entered so far, and response and  *)
(* error are those of the call made alone, whatever the other calls append *)
(* to the arrays they share.                                               *)
(***************************************************************************)
\* The call of goroutine t, made alone.
Alone(t) == CurriedCall("handle", loc[t].chain, ValueOf(loc[t].ctx), loc[t].req)
InCall == {t \in Threads : pc[t] \in {"down", "up", "ret"}}

C17_ConcurrentCallsAsAlone ==
    \A t \in InCall :
      /\ loc[t].chain = buildHandlers(stack)
      /\ Len(loc[t].log) <= Len(Alone(t).log)
      /\ loc[t].log = SubSeq(Alone(t).log, 1, Len(loc[t].log))
      /\ \A i \in 1..Len(loc[t].frames) :
           StackOf(loc[t].frames[i].scope) = loc[t].log[i].seen
      /\ pc[t] = "ret" =>
           /\ loc[t].log = Alone(t).log
           /\ loc[t].res.out = Alone(t).out
           /\ loc[t].res.err = Alone(t).err

\* The part that holds although append writes into shared arrays: when every
\* call so far was made with context.Background(), so that every context is
\* one the chain made on its way down from an empty stack.
FromBackgroundOnly ==
    \A c \in 1..Len(scopes) :
      /\ Len(scopes[c].made) <= Len(stack)
      /\ scopes[c].made = SubSeq(Reverse(StackInfos), 1, Len(scopes[c].made))
C17_FromBackgroundAsAlone ==
    ((\A t \in InCall : loc[t].ctx = 0) /\ FromBackgroundOnly) => C17_ConcurrentCallsAsAlone

(***************************************************************************)
(* C20.  A handler built by NewAnonymousHandler from a nil validate or a   *)
(* nil handle function passes that operation through: it calls next with   *)
(* the context and the request it received and returns what next returned. *)
(* As the claim has it, a chain with such handlers then returns the        *)
(* response and the error of the chain without them.                       *)
(***************************************************************************)
FromNil(h, kind) ==
    (IF kind = "handle" THEN h.Handler.given.handlerFn ELSE h.Handler.given.validatorFn) = "nil"
WithoutNil(chain, kind) == SelectSeq(chain, LAMBDA h : ~FromNil(h, kind))
\* Some handler under a nil-built one bases its result on the stack it reads.
StackReadBelowNil(chain, kind) ==
    \E p, q \in 1..Len(chain) :
      p < q /\ FnOf(chain[p], kind) = "depth" /\ FromNil(chain[q], kind)
\* The entry after a nil-built handler's: same request, and a context that
\* is the nil-built handler's own, extended by the next closure only.
NilPassesOn ==
    \A i \in 1..(Depth - 1) :
      FromNil(EnteredHandler(i), CallKind) =>
        /\ last.res.log[i + 1].req = last.res.log[i].req
        /\ last.res.log[i + 1].seen = Append(last.res.log[i].seen, EnteredHandler(i + 1).info)
SameAsWithoutNil ==
    LET r == CurriedCall(CallKind, WithoutNil(CalledChain, CallKind), last.ctx, last.req)
    IN  last.res.out = r.out /\ last.res.err = r.err

C20_NilFunctionsPassThrough ==
    IsCall => NilPassesOn /\ SameAsWithoutNil

\* As amended: the same, for chains in which no handler under a nil-built
\* one bases its result on the handler-info stack it reads from its context
\* (that stack includes the nil-built handler's info).
C20_NilFunctionsPassThroughAmended ==
    IsCall =>
      /\ NilPassesOn
      /\ ~StackReadBelowNil(CalledChain, CallKind) => SameAsWithoutNil

\* A Handle call went through two handlers built from a nil handle function
\* (the outer one from two nil functions) down to a handler that answered.
C20_Witness ==
    /\ last.op = "Handle"
    /\ Depth = 3
    /\ EnteredHandler(1).Handler.given = [validatorFn |-> "nil", handlerFn |-> "nil"]
    /\ FromNil(EnteredHandler(2), CallKind)
    /\ FnOf(EnteredHandler(3), CallKind) = "ret"
    /\ last.res.out = [by |-> EnteredHandler(3).info.ID, req |-> 1, deco |-> 0]


(***************************************************************************)
(* C21.  As stated: in every Validate or Handle call, whatever context the *)
(* caller passes in, the first handler entered sees a stack holding only   *)
(* its own HandlerInfo, and every further handler entered sees one frame   *)
(* more than the handler entered before it.                                *)
(***************************************************************************)
GrowsByOneFrame ==
    \A i \in 2..Depth : Len(last.res.log[i].seen) = Len(last.res.log[i - 1].seen) + 1

C21_StackCreatedPerInvocation ==
    (IsCall /\ Depth >= 1) =>
        /\ last.res.log[1].seen = <<EnteredHandler(1).info>>
        /\ GrowsByOneFrame

(***************************************************************************)
(* C21, amended.  The stack starts empty only when the caller's context    *)
(* carries none: then the first handler entered sees only its own          *)
(* HandlerInfo.  A context that carries a stack is not reset: the first    *)
(* handler entered sees one frame more than that context carries.  Either  *)
(* way every further handler entered sees one frame more than the handler  *)
(* entered before it.                                                      *)
(***************************************************************************)
C21_StackStartsFromCallerContext ==
    (IsCall /\ Depth >= 1) =>
        /\ ~last.ctx.has => last.res.log[1].seen = <<EnteredHandler(1).info>>
        /\ Len(last.res.log[1].seen) = Len(GetHandlerInfoFromContext(last.ctx)) + 1
        /\ GrowsByOneFrame

C21_Witness ==
    /\ last.op = "Handle"
    /\ last.ctx = WithStack(<<HandlerInfo(11, "")>>)
    /\ Depth = 2
    /\ last.res.log[1].seen = <<HandlerInfo(11, ""), HandlerInfo(11, "")>>
    /\ Len(last.res.log[2].seen) = 3


(***************************************************************************)
(* C22.  An Add that replaces nothing (no swap target, or a swap target    *)
(* that is not in the sequence), with or without the last flag, makes the  *)
(* sequence one entry longer and keeps every entry that was there, in the  *)
(* order they had: taking the new entry out again gives the sequence as it *)
(* was before the Add.                                                     *)
(***************************************************************************)
AddedWithoutSwap == last.op = "Add" /\ ~SwapHit

KeepsOldAndGrowsByOne ==
    /\ Len(stack) = Len(last.pre.stack) + 1
    /\ DeleteFunc(stack, last.id) = last.pre.stack

C22_AddGrowsByOneKeepsOrder ==
    AddedWithoutSwap => KeepsOldAndGrowsByOne

\* The same for the Adds that take the append path (no last flag).
C22_AppendGrowsByOneKeepsOrder ==
    (AddedWithoutSwap /\ ~last.opts.last) =>
        /\ KeepsOldAndGrowsByOne
        /\ stack = Append(last.pre.stack, AddedHandler)


(***************************************************************************)
(* C23.  Right after an Add, whatever its options, the sequence holds      *)
(* exactly one entry with the ID the Add returned, that entry is the       *)
(* handler that was passed in, both compiled chains hold it at the place   *)
(* it has in the sequence, and a call enters it whenever every handler     *)
(* above it calls its continuation.  A Remove of that ID made next takes   *)
(* exactly one entry out of the sequence.                                  *)
(***************************************************************************)
EntriesWith(s, id) == {i \in 1..Len(s) : s[i].info.ID = id}

\* Every handler above position p of the chain calls its continuation.
ReachedAt(chain, p, kind) ==
    \A q \in (p + 1)..Len(chain) : FnOf(chain[q], kind) \in CallsNext

InstalledOnce(id, h) ==
    /\ Cardinality(EntriesWith(stack, id)) = 1
    /\ \A p \in EntriesWith(stack, id) :
          /\ stack[p] = h
          /\ \A kind \in {"handle", "validate"} :
                LET chain == IF kind = "handle" THEN cachedHandler ELSE cachedValidator
                IN  /\ Len(chain) = Len(stack)
                    /\ chain[p] = h
                    /\ ReachedAt(chain, p, kind) =>
                          \E i \in 1..Len(ProbeLog(kind, chain)) :
                              ProbeLog(kind, chain)[i].id = id

RemoveOfAddedShrinksByOne ==
    (last.op = "Add" /\ last'.op = "Remove" /\ last'.id = last.id) =>
        Len(stack') = Len(stack) - 1

C23_AddedHandlerIsInstalled ==
    /\ [](last.op = "Add" => InstalledOnce(last.id, AddedHandler))
    /\ [][RemoveOfAddedShrinksByOne]_allVars

\* The same for the Adds that do not take the insert-at-head path.
C23_InstalledUnlessInsertAtHead ==
    /\ []((last.op = "Add" /\ (SwapHit \/ ~last.opts.last)) =>
              InstalledOnce(last.id, AddedHandler))
    /\ [][(SwapHit \/ ~last.opts.last) => RemoveOfAddedShrinksByOne]_allVars


(***************************************************************************)
(* C24.  Under fair scheduling every call of Add, Remove, Validate or      *)
(* Handle that a goroutine has started returns, also when handlers call    *)
(* Add, Remove, Validate or Handle on the same container from inside a     *)
(* call: a goroutine that is in a call is eventually in none.              *)
(***************************************************************************)
C24_EveryCallReturns ==
    \A t \in Threads : (pc[t] # "idle") ~> (pc[t] = "idle")

\* The goroutines that are in a call.
InsideCall == {t \in Threads : pc[t] # "idle"}

\* The same as a state property: while some goroutine is in a call, some
\* goroutine in a call has a step to take.
C24_SomeCallCanProceed ==
    InsideCall # {} => \E t \in InsideCall : ENABLED StepInCall(t)


(***************************************************************************)
(* C25.  Both compiled chains come from the same sequence: after any Adds, *)
(* swaps and Removes the validator chain and the handler chain hold the    *)
(* same handlers in the same order, that of the sequence.  A call enters   *)
(* the handlers from the newest down, Validate running only validate       *)
(* operations and Handle only handle operations: it goes below a handler   *)
(* exactly when that handler's operation of the call's kind calls its      *)
(* continuation.  So Validate and Handle enter the handlers in one order:  *)
(* as far as both get, the i-th handler entered is the same.               *)
(***************************************************************************)
\* What handler h does in the operation the last call runs.
OwnOperation(h) ==
    IF last.op = "Validate" THEN h.Handler.validatorFn ELSE h.Handler.handlerFn

EntersNewestFirst ==
    /\ Depth <= Len(CalledChain)
    /\ \A i \in 1..Depth :
          /\ last.res.log[i].op = CallKind
          /\ last.res.log[i].id = CalledChain[Len(CalledChain) - i + 1].info.ID
          /\ i < Depth => OwnOperation(EnteredHandler(i)) \in CallsNext
    /\ (Depth = 0) => CalledChain = <<>>
    /\ (Depth > 0 /\ Depth < Len(CalledChain)) => OwnOperation(Deepest) \notin CallsNext

SameEntryOrder ==
    LET v == LogIDs(ProbeLog("validate", cachedValidator))
        h == LogIDs(ProbeLog("handle", cachedHandler))
    IN  \A i \in 1..Len(v) : i <= Len(h) => v[i] = h[i]

C25_ChainsFromSameSequence ==
    /\ cachedValidator = cachedHandler
    /\ cachedHandler = stack
    /\ IsCall => EntersNewestFirst
    /\ SameEntryOrder

\* After a swap of the oldest handler: Validate passes through handler 11,
\* whose Handle would have answered, and ends in handler 12.
C25_Witness ==
    /\ last.op = "Validate"
    /\ IDsOf(stack) = <<12, 11>>
    /\ stack[2].Handler = SplitHandler("pass", "ret")
    /\ LogIDs(last.res.log) = <<11, 12>>
    /\ LogIDs(ProbeLog("handle", cachedHandler)) = <<11>>


(***************************************************************************)
(* C26.  A continuation that a handler stored during a call runs, whenever *)
(* it is called later, the handlers that were below that handler when the  *)
(* chain was compiled, as they were then: Adds, Removes and swaps made in  *)
(* between (a swap of one of those handlers in place included) change      *)
(* neither which handlers it enters nor what it returns.                   *)
(***************************************************************************)
\* The handlers the i-th kept continuation calls, the stack being s.
RunsNow(i, s) == [j \in 1..Len(kept[i].next) |-> CapturedHandler(kept[i].next[j], s)]

C26_KeptContinuationIsSnapshot ==
    /\ \A i \in 1..Len(kept) : RunsNow(i, stack) = kept[i].below
    /\ last.op = "Invoke" =>
          LET k == kept[last.id]
              ids == LogIDs(last.res.log)
          IN  /\ last.res = CurriedCall("handle", k.below, last.ctx, last.req)
              /\ Len(ids) <= Len(k.below)
              /\ \A j \in 1..Len(ids) : ids[j] = k.below[Len(k.below) - j + 1].info.ID

\* Handler 11 stored its next while 10 was below it; 10 was then swapped
\* for 12 in place; the continuation still runs 10.
C26_Witness ==
    /\ last.op = "Invoke"
    /\ kept[last.id].by = 11
    /\ IDsOf(kept[last.id].below) = <<10>>
    /\ IDsOf(stack) = <<12, 11>>
    /\ LogIDs(last.res.log) = <<10>>
    /\ last.res.out.by = 10

=============================================================================
